---- MODULE Spec2Model ----
(***************************************************************************)
(* Model of lordmathis/llamactl's documentation hooks and chat test        *)
(* scripts:                                                                *)
(*   - fix_line_endings.py  on_page_markdown   (SpecNormalize)             *)
(*   - readme_sync.py       on_page_markdown, add_line_breaks (SpecReadme) *)
(*   - test_llm.py / test_client.py  send_message and the chat loops       *)
(*                                                         (SpecChat)      *)
(* A Python str is a sequence of one-character strings.  The backtick      *)
(* cannot be written inside a TLA+ string, so it is the character BT.      *)
(***************************************************************************)
EXTENDS Integers, Sequences, FiniteSets, TLC

VARIABLES
    \* fix_line_endings.py on_page_markdown
    document, markdown, lines, idx, in_code_block, processed_lines, npc, result, pass,
    \* readme_sync.py on_page_markdown
    rpc, page_markdown, src_path, readme_file, readme_exists, read_exc, readme_content,
    headline, features_with_breaks, hook_result,
    \* test_llm.py / test_client.py
    script, cpc, models, model_name, user_input, posts, response, exc, returned,
    printed, turns

nvars == <<document, markdown, lines, idx, in_code_block, processed_lines, npc, result, pass>>
rvars == <<rpc, page_markdown, src_path, readme_file, readme_exists, read_exc,
           readme_content, headline, features_with_breaks, hook_result>>
cvars == <<script, cpc, models, model_name, user_input, posts, response, exc, returned,
           printed, turns>>
vars == <<nvars, rvars, cvars>>

(***************************************************************************)
(* Python str primitives                                                   *)
(***************************************************************************)
BT == "BT"
NL == "\n"

\* no requests.Response object
NoResponse == [status |-> 0, body |-> [json |-> FALSE, content |-> "none"]]

\* the characters str.strip()/str.rstrip() remove that occur in the inputs
Whitespace == {" ", "\t", "\n", "\r", "\f"}

IsSpace(c) == c \in Whitespace

RStrip(s) ==
    LET keep == {k \in 1..Len(s) : ~IsSpace(s[k])}
    IN  IF keep = {} THEN <<>>
        ELSE SubSeq(s, 1, CHOOSE k \in keep : \A j \in keep : j <= k)

LStrip(s) ==
    LET keep == {k \in 1..Len(s) : ~IsSpace(s[k])}
    IN  IF keep = {} THEN <<>>
        ELSE SubSeq(s, CHOOSE k \in keep : \A j \in keep : k <= j, Len(s))

Strip(s) == LStrip(RStrip(s))

StartsWith(s, p) == Len(s) >= Len(p) /\ SubSeq(s, 1, Len(p)) = p

EndsWith(s, p) == Len(s) >= Len(p) /\ SubSeq(s, Len(s) - Len(p) + 1, Len(s)) = p

HasChar(s, c) == \E k \in 1..Len(s) : s[k] = c

\* text[p..] starts with lit
MatchAt(text, p, lit) ==
    p + Len(lit) - 1 <= Len(text) /\ SubSeq(text, p, p + Len(lit) - 1) = lit

RECURSIVE SplitFrom(_, _, _)
SplitFrom(s, sep, from) ==
    LET hits == {k \in from..Len(s) : s[k] = sep}
    IN  IF hits = {} THEN <<SubSeq(s, from, Len(s))>>
        ELSE LET k == CHOOSE h \in hits : \A j \in hits : h <= j
             IN  <<SubSeq(s, from, k - 1)>> \o SplitFrom(s, sep, k + 1)

\* s.split(sep) for a one-character separator
Split(s, sep) == SplitFrom(s, sep, 1)

RECURSIVE Join(_, _)
\* sep.join(ls)
Join(ls, sep) ==
    IF Len(ls) = 0 THEN <<>>
    ELSE IF Len(ls) = 1 THEN ls[1]
    ELSE ls[1] \o sep \o Join(Tail(ls), sep)

RECURSIVE Concat(_)
Concat(ss) == IF Len(ss) = 0 THEN <<>> ELSE ss[1] \o Concat(Tail(ss))

SeqsUpTo(S, n) == UNION {[1..k -> S] : k \in 0..n}

(***************************************************************************)
(* fix_line_endings.py : on_page_markdown                                  *)
(***************************************************************************)
Fence == <<BT, BT, BT>>
TwoSpaces == <<" ", " ">>

\* the tuple of standalone tokens of line 50
StandaloneTokens ==
    { <<".">>, <<"!">>, <<"?">>, <<":">>, <<";">>, Fence, <<"-", "-", "-">>, <<",">> }

SkipLineNoTable(line, stripped) ==
    \/ StartsWith(stripped, <<"#">>)
    \/ StartsWith(stripped, <<">">>)
    \/ EndsWith(line, TwoSpaces)
    \/ StartsWith(stripped, <<"-", "-", "-">>)
    \/ StartsWith(stripped, <<"<">>)
    \/ EndsWith(stripped, <<">">>)
    \/ stripped \in StandaloneTokens
\* the condition of lines 43-50
SkipLine(line, stripped) ==
    \/ StartsWith(stripped, <<"#">>)
    \/ StartsWith(stripped, <<">">>)
    \/ HasChar(stripped, "|")
    \/ EndsWith(line, TwoSpaces)
    \/ StartsWith(stripped, <<"-", "-", "-">>)
    \/ StartsWith(stripped, <<"<">>)
    \/ EndsWith(stripped, <<">">>)
    \/ stripped \in StandaloneTokens

PaddedStripBoth(line) == Strip(line) \o TwoSpaces
PaddedOneSpaceKept(line) == line \o <<" ">>
\* line 56: line.rstrip() + '  '
Padded(line) == RStrip(line) \o TwoSpaces

\* -------- inputs --------
MaxLines == 4

\* lines the multi-line documents are built from
CoreLines ==
    { <<>>, <<" ", " ">>, Fence, <<" ">> \o Fence \o <<"p", "y", " ">>,
      <<"a">>, <<" ", "a", " ", "\t">>, <<"a", " ", " ">>, <<"#", " ", "T">> }

Leads == { <<>>, <<" ">> }
Trails == { <<>>, <<" ">>, <<" ", " ">>, <<"\t">>, <<" ", " ", " ">>, <<"\r">> }
Bodies ==
    { <<>>, <<"a">>, <<"a", " ", "b", ".">>, Fence, Fence \o <<"a">>, <<BT, BT>>,
      <<"#">>, <<"a", "#">>, <<">", "q">>, <<"a", ">">>, <<"a", "|", "b">>, <<"|">>,
      <<"-", "-", "-">>, <<"-", "-">>, <<"-", "-", "-", "a">>, <<"<", "b">>, <<"a", "<">>,
      <<".">>, <<"!">>, <<"?">>, <<":">>, <<";">>, <<",">>, <<".", ".">>, <<"a", ".">> }

\* every lead/body/trail combination, for the per-line rules
AllLines == { l \o b \o t : l \in Leads, b \in Bodies, t \in Trails }

\* "# Title\n\nSome prose.\n> quoted\n| a | b |\n"   (spec, section 8)
ExemptionExample ==
    <<"#", " ", "T", "i", "t", "l", "e", NL, NL,
      "S", "o", "m", "e", " ", "p", "r", "o", "s", "e", ".", NL,
      ">", " ", "q", "u", "o", "t", "e", "d", NL,
      "|", " ", "a", " ", "|", " ", "b", " ", "|", NL>>

NormalizeInputs ==
    {Join(ls, <<NL>>) : ls \in SeqsUpTo(CoreLines, MaxLines)}
    \cup {Join(<<a, b>>, <<NL>>) : a \in {<<>>, Fence, <<"a">>}, b \in AllLines}
    \cup {ExemptionExample}

\* -------- the loop of lines 13-60, one action per branch --------
Line == lines[idx]
Stripped == Strip(lines[idx])
InLoop == npc = "loop" /\ idx <= Len(lines)

Emit(out) ==
    /\ processed_lines' = Append(processed_lines, out)
    /\ idx' = idx + 1
    /\ UNCHANGED <<document, markdown, lines, npc, result, pass, rvars, cvars>>

\* lines 13-15
SplitLines ==
    /\ npc = "start"
    /\ lines' = Split(markdown, NL)
    /\ processed_lines' = <<>>
    /\ in_code_block' = FALSE
    /\ idx' = 1
    /\ npc' = "loop"
    /\ UNCHANGED <<document, markdown, result, pass, rvars, cvars>>

FenceLineNoToggle ==
    /\ InLoop
    /\ StartsWith(Stripped, Fence)
    /\ in_code_block' = in_code_block
    /\ Emit(Line)
\* lines 21-24
FenceLine ==
    /\ InLoop
    /\ StartsWith(Stripped, Fence)
    /\ in_code_block' = ~in_code_block
    /\ Emit(Line)

\* lines 27-29
CodeLine ==
    /\ InLoop
    /\ ~StartsWith(Stripped, Fence)
    /\ in_code_block
    /\ Emit(Line)
    /\ UNCHANGED in_code_block

\* lines 32-34
EmptyLine ==
    /\ InLoop
    /\ ~StartsWith(Stripped, Fence)
    /\ ~in_code_block
    /\ Stripped = <<>>
    /\ Emit(Line)
    /\ UNCHANGED in_code_block

\* lines 43-52
SkippedLine ==
    /\ InLoop
    /\ ~StartsWith(Stripped, Fence)
    /\ ~in_code_block
    /\ Stripped # <<>>
    /\ SkipLine(Line, Stripped)
    /\ Emit(Line)
    /\ UNCHANGED in_code_block

\* lines 55-58
BreakLine ==
    /\ InLoop
    /\ ~StartsWith(Stripped, Fence)
    /\ ~in_code_block
    /\ Stripped # <<>>
    /\ ~SkipLine(Line, Stripped)
    /\ Emit(IF Stripped # <<>> /\ ~in_code_block THEN Padded(Line) ELSE Line)
    /\ UNCHANGED in_code_block

\* line 60
JoinLines ==
    /\ npc = "loop"
    /\ idx > Len(lines)
    /\ result' = Join(processed_lines, <<NL>>)
    /\ npc' = "done"
    /\ UNCHANGED <<document, markdown, lines, idx, in_code_block, processed_lines, pass, rvars, cvars>>

\* the hook applied to its own output (normalize(normalize(x)))
Renormalize ==
    /\ npc = "done"
    /\ pass = 1
    /\ markdown' = result
    /\ pass' = 2
    /\ npc' = "start"
    /\ UNCHANGED <<document, lines, idx, in_code_block, processed_lines, result, rvars, cvars>>

NormalizeIdle ==
    /\ document = <<>> /\ markdown = <<>> /\ lines = <<>> /\ idx = 0 /\ in_code_block = FALSE
    /\ processed_lines = <<>> /\ npc = "idle" /\ result = <<>> /\ pass = 0

ReadmeIdle ==
    /\ rpc = "idle" /\ page_markdown = <<>> /\ src_path = "" /\ readme_file = <<>>
    /\ readme_exists = FALSE /\ read_exc = "none" /\ readme_content = <<>>
    /\ headline = <<>> /\ features_with_breaks = <<>> /\ hook_result = <<>>

ChatIdle ==
    /\ script = "" /\ cpc = "idle" /\ models = <<>> /\ model_name = "" /\ user_input = <<>>
    /\ posts = 0 /\ response = NoResponse /\ exc = "none" /\ returned = "none"
    /\ printed = <<>> /\ turns = 0

InitNormalize ==
    /\ document \in NormalizeInputs
    /\ markdown = document
    /\ lines = <<>> /\ idx = 0 /\ in_code_block = FALSE /\ processed_lines = <<>>
    /\ npc = "start" /\ result = <<>> /\ pass = 1
    /\ ReadmeIdle /\ ChatIdle

NextNormalize ==
    \/ SplitLines
    \/ FenceLine
    \/ CodeLine
    \/ EmptyLine
    \/ SkippedLine
    \/ BreakLine
    \/ JoinLines
    \/ Renormalize

SpecNormalize == InitNormalize /\ [][NextNormalize]_vars

(***************************************************************************)
(* Claims about fix_line_endings.py                                        *)
(***************************************************************************)
InLines == Split(markdown, NL)
OutLines == Split(result, NL)

IsFenceMarker(l) == StartsWith(Strip(l), Fence)
Odd(n) == n % 2 = 1
\* number of fence markers among the first k lines of ls
FencesUpTo(ls, k) == Cardinality({j \in 1..k : IsFenceMarker(ls[j])})

\* C1: the returned text has as many lines (split on newline) as the input,
\* and output line i is input line i, or input line i with its trailing
\* whitespace removed and exactly two spaces appended.
C1_LineCountAndShape ==
    npc = "done" =>
        /\ Len(OutLines) = Len(InLines)
        /\ \A k \in 1..Len(InLines) :
              \/ OutLines[k] = InLines[k]
              \/ OutLines[k] = RStrip(InLines[k]) \o <<" ", " ">>

C1_Witness ==
    /\ npc = "done" /\ pass = 1
    /\ Len(InLines) >= 3
    /\ \E k \in 1..Len(InLines) : OutLines[k] # InLines[k] /\ InLines[k] # RStrip(InLines[k])
    /\ \E k \in 1..Len(InLines) : OutLines[k] = InLines[k]

\* C2: normalize(normalize(x)) = normalize(x): the second application of
\* the hook, to the text the first application returned, returns it unchanged.
C2_Idempotent ==
    (npc = "done" /\ pass = 2) => result = markdown

C2_Witness ==
    /\ npc = "done" /\ pass = 2
    /\ markdown # document
    /\ Odd(FencesUpTo(Split(document, NL), Len(Split(document, NL))))
    /\ \E k \in 1..Len(Split(document, NL)) : EndsWith(Split(document, NL)[k], <<"\t">>)

\* C3: a fence-marker line is emitted unchanged and toggles in_code_block
\* (the flag is the parity of the fence markers seen so far); a line after
\* an odd-numbered fence marker and before the next one is emitted
\* unchanged; after an unmatched last fence marker the flag stays true and
\* every remaining line is emitted unchanged.
C3_FenceContainment ==
    npc \in {"loop", "done"} =>
        /\ in_code_block = Odd(FencesUpTo(lines, idx - 1))
        /\ \A k \in 1..Len(processed_lines) :
              (IsFenceMarker(lines[k]) \/ Odd(FencesUpTo(lines, k - 1)))
                  => processed_lines[k] = lines[k]
        /\ npc = "done" =>
              \A k \in 1..Len(InLines) :
                  (IsFenceMarker(InLines[k]) \/ Odd(FencesUpTo(InLines, k - 1)))
                      => OutLines[k] = InLines[k]

\* a document whose last fence marker is unmatched, followed by a line that
\* would get a hard break outside a code block
C3_Witness ==
    /\ npc = "done" /\ pass = 1 /\ in_code_block
    /\ \E k \in 2..Len(InLines) :
          /\ IsFenceMarker(InLines[k - 1])
          /\ Odd(FencesUpTo(InLines, k - 1))
          /\ InLines[k] = <<" ", "a", " ", "\t">>
          /\ OutLines[k] = InLines[k]

\* the exemption predicates as section 3 of the specification lists them
ListedExempt(l) ==
    LET st == Strip(l)
    IN  \/ (st # <<>> /\ st[1] \in {"#", ">", "<"})
        \/ (Len(st) >= 3 /\ st[1] = "-" /\ st[2] = "-" /\ st[3] = "-")
        \/ (\E k \in 1..Len(st) : st[k] = "|")
        \/ (st # <<>> /\ st[Len(st)] = ">")
        \/ st \in { <<".">>, <<"!">>, <<"?">>, <<":">>, <<";">>, <<BT, BT, BT>>,
                    <<"-", "-", "-">>, <<",">> }
        \/ (Len(l) >= 2 /\ l[Len(l)] = " " /\ l[Len(l) - 1] = " ")

\* "# Title\n\nSome prose.  \n> quoted\n| a | b |\n"
ExemptionExpected ==
    <<"#", " ", "T", "i", "t", "l", "e", NL, NL,
      "S", "o", "m", "e", " ", "p", "r", "o", "s", "e", ".", " ", " ", NL,
      ">", " ", "q", "u", "o", "t", "e", "d", NL,
      "|", " ", "a", " ", "|", " ", "b", " ", "|", NL>>

\* C4: a line outside a code block that is neither a fence marker nor blank
\* is emitted unchanged when it matches an exemption predicate, and
\* otherwise as the line with trailing whitespace stripped plus two spaces;
\* for the example document only line 3 changes, to "Some prose.  ".
C4_ExemptOrPadded ==
    /\ npc \in {"loop", "done"} =>
          \A k \in 1..Len(processed_lines) :
              (/\ ~Odd(FencesUpTo(lines, k - 1))
               /\ ~IsFenceMarker(lines[k])
               /\ Strip(lines[k]) # <<>>)
                  => processed_lines[k] =
                        IF ListedExempt(lines[k]) THEN lines[k]
                        ELSE RStrip(lines[k]) \o <<" ", " ">>
    /\ (npc = "done" /\ markdown = ExemptionExample) => result = ExemptionExpected

C4_Witness ==
    /\ npc = "done" /\ pass = 1
    /\ markdown = ExemptionExample
    /\ result # markdown

(***************************************************************************)
(* readme_sync.py : on_page_markdown, add_line_breaks                      *)
(***************************************************************************)
\* line 30
DefaultHeadline ==
    <<"M", "a", "n", "a", "g", "e", "m", "e", "n", "t", " ", "s", "e", "r",
      "v", "e", "r", " ", "f", "o", "r", " ", "l", "l", "a", "m", "a", ".",
      "c", "p", "p", " ", "a", "n", "d", " ", "M", "L", "X", " ", "i", "n",
      "s", "t", "a", "n", "c", "e", "s">>

\* line 39
FeaturesNotFound ==
    <<"F", "e", "a", "t", "u", "r", "e", "s", " ", "c", "o", "n", "t", "e",
      "n", "t", " ", "n", "o", "t", " ", "f", "o", "u", "n", "d", " ", "i",
      "n", " ", "R", "E", "A", "D", "M", "E", ".", "m", "d">>

HeadlinePlaceholder ==
    <<"{", "{", "H", "E", "A", "D", "L", "I", "N", "E", "}", "}">>

FeaturesPlaceholder ==
    <<"{", "{", "F", "E", "A", "T", "U", "R", "E", "S", "}", "}">>

\* the literal prefix of the pattern of line 33
FeaturesHeading ==
    <<"#", "#", " ", "F", "e", "a", "t", "u", "r", "e", "s", NL>>

\* the literal of the lookahead of line 33
NextHeading == <<NL, "#", "#", " ">>

Stars == <<"*", "*">>

NoMatch == [found |-> FALSE, group |-> <<>>]

MinOf(S) == CHOOSE m \in S : \A j \in S : m <= j

\* where re.search(r'\*\*(.*?)\*\*', text) can start: '**', then characters
\* other than newline ('.' without DOTALL), then '**'
HeadlineEnds(text, p) ==
    {q \in (p + 2)..Len(text) :
        /\ MatchAt(text, q, Stars)
        /\ \A j \in (p + 2)..(q - 1) : text[j] # NL}

\* line 29: the leftmost start, and for it the shortest (lazy) group
HeadlineSearch(text) ==
    LET starts == {p \in 1..Len(text) :
                      MatchAt(text, p, Stars) /\ HeadlineEnds(text, p) # {}}
    IN  IF starts = {} THEN NoMatch
        ELSE LET p == MinOf(starts)
             IN  [found |-> TRUE,
                  group |-> SubSeq(text, p + 2, MinOf(HeadlineEnds(text, p)) - 1)]

\* line 33: re.search(r'## Features\n(.*?)(?=\n## |\Z)', text, re.DOTALL):
\* the leftmost occurrence of the literal, then the shortest group after
\* which '\n## ' or the end of the text follows
FeaturesSearch(text) ==
    LET starts == {p \in 1..Len(text) : MatchAt(text, p, FeaturesHeading)}
    IN  IF starts = {} THEN NoMatch
        ELSE LET s == MinOf(starts) + Len(FeaturesHeading)
                 ends == {e \in s..(Len(text) + 1) :
                             e = Len(text) + 1 \/ MatchAt(text, e, NextHeading)}
             IN  [found |-> TRUE, group |-> SubSeq(text, s, MinOf(ends) - 1)]

BreakEachLineButLast(content) ==
    LET ls == Split(content, NL)
    IN  Join([k \in 1..Len(ls) |->
                 IF Strip(ls[k]) # <<>> /\ k < Len(ls)
                 THEN RStrip(ls[k]) \o <<" ", " ">> ELSE ls[k]], <<NL>>)
\* lines 48-59
add_line_breaks(content) ==
    LET ls == Split(content, NL)
    IN  Join([k \in 1..Len(ls) |->
                 IF Strip(ls[k]) # <<>> THEN RStrip(ls[k]) \o <<" ", " ">> ELSE ls[k]],
             <<NL>>)

RECURSIVE ReplaceFrom(_, _, _, _)
ReplaceFrom(s, old, new, p) ==
    IF p > Len(s) THEN <<>>
    ELSE IF MatchAt(s, p, old) THEN new \o ReplaceFrom(s, old, new, p + Len(old))
    ELSE <<s[p]>> \o ReplaceFrom(s, old, new, p + 1)

\* s.replace(old, new) for a non-empty old
Replace(s, old, new) == ReplaceFrom(s, old, new, 1)

\* -------- inputs --------
MaxFrags == 3

Fragments ==
    { FeaturesHeading,
      <<"#">>, <<NL>>, <<"#", "#", " ">>, <<"-", " ", "a">>, <<" ">>, Stars, <<"x">>,
      <<"-", " ", "a", NL, "-", " ", "b", NL, "#", "#", " ", "O", "t", "h", "e", "r", NL>> }

\* "# X\n\n**Hello world**\n"   (spec, section 8)
HeadlineExample ==
    <<"#", " ", "X", NL, NL, "*", "*", "H", "e", "l", "l", "o", " ", "w",
      "o", "r", "l", "d", "*", "*", NL>>

\* "## Features\n- a\n- b\n## Other\n"   (spec, section 8)
FeaturesExample ==
    <<"#", "#", " ", "F", "e", "a", "t", "u", "r", "e", "s", NL, "-", " ",
      "a", NL, "-", " ", "b", NL, "#", "#", " ", "O", "t", "h", "e", "r", NL>>

\* "# X\n\n**a\nb** **c**\n"
MultiLineBoldExample ==
    <<"#", " ", "X", NL, NL, "*", "*", "a", NL, "b", "*", "*", " ", "*",
      "*", "c", "*", "*", NL>>

\* "## Features\n## Other\nfoo\n## Third\n"
EmptySectionExample ==
    <<"#", "#", " ", "F", "e", "a", "t", "u", "r", "e", "s", NL,
      "#", "#", " ", "O", "t", "h", "e", "r", NL, "f", "o", "o", NL,
      "#", "#", " ", "T", "h", "i", "r", "d", NL>>

ReadmeInputs ==
    {Concat(fs) : fs \in SeqsUpTo(Fragments, MaxFrags)}
    \cup {HeadlineExample, FeaturesExample, HeadlineExample \o FeaturesExample,
          MultiLineBoldExample, EmptySectionExample}

\* "# llamactl\n\n{{HEADLINE}}\n\n## Features\n\n{{FEATURES}}\n"
IndexTemplate ==
    <<"#", " ", "l", "l", "a", "m", "a", "c", "t", "l", NL, NL, "{", "{",
      "H", "E", "A", "D", "L", "I", "N", "E", "}", "}", NL, NL, "#", "#",
      " ", "F", "e", "a", "t", "u", "r", "e", "s", NL, NL, "{", "{", "F",
      "E", "A", "T", "U", "R", "E", "S", "}", "}", NL>>

\* "# Install\n"
PlainPage == <<"#", " ", "I", "n", "s", "t", "a", "l", "l", NL>>

PageInputs == {IndexTemplate, PlainPage}
SrcPaths == {"index.md", "installation.md"}
ReadOutcomes == {"none", "OSError", "UnicodeDecodeError"}

\* -------- the hook, one action per step --------
ReturnMarkdown(md) ==
    /\ hook_result' = md
    /\ rpc' = "returned"

\* lines 11-12
CheckPage ==
    /\ rpc = "start"
    /\ \E sp \in SrcPaths :
          /\ src_path' = sp
          /\ IF sp # "index.md" THEN ReturnMarkdown(page_markdown)
             ELSE rpc' = "exists" /\ UNCHANGED hook_result
    /\ UNCHANGED <<page_markdown, readme_file, readme_exists, read_exc, readme_content,
                   headline, features_with_breaks, nvars, cvars>>

\* lines 15-19
CheckExists ==
    /\ rpc = "exists"
    /\ \E e \in BOOLEAN :
          /\ readme_exists' = e
          /\ IF ~e THEN ReturnMarkdown(page_markdown)
             ELSE rpc' = "read" /\ UNCHANGED hook_result
    /\ UNCHANGED <<page_markdown, src_path, readme_file, read_exc, readme_content,
                   headline, features_with_breaks, nvars, cvars>>

ReadReadmeUncaught ==
    /\ rpc = "read"
    /\ \E r \in ReadOutcomes :
          /\ read_exc' = r
          /\ IF r # "none"
             THEN rpc' = "raised" /\ UNCHANGED <<hook_result, readme_content>>
             ELSE /\ readme_content' = readme_file
                  /\ rpc' = "headline"
                  /\ UNCHANGED hook_result
    /\ UNCHANGED <<page_markdown, src_path, readme_file, readme_exists,
                   headline, features_with_breaks, nvars, cvars>>
\* lines 21-26
ReadReadme ==
    /\ rpc = "read"
    /\ \E r \in ReadOutcomes :
          /\ read_exc' = r
          /\ IF r # "none"
             THEN ReturnMarkdown(page_markdown) /\ UNCHANGED readme_content
             ELSE /\ readme_content' = readme_file
                  /\ rpc' = "headline"
                  /\ UNCHANGED hook_result
    /\ UNCHANGED <<page_markdown, src_path, readme_file, readme_exists,
                   headline, features_with_breaks, nvars, cvars>>

\* lines 29-30
ExtractHeadline ==
    /\ rpc = "headline"
    /\ LET headline_match == HeadlineSearch(readme_content)
       IN  headline' = IF headline_match.found THEN headline_match.group
                       ELSE DefaultHeadline
    /\ rpc' = "features"
    /\ UNCHANGED <<page_markdown, src_path, readme_file, readme_exists, read_exc,
                   readme_content, features_with_breaks, hook_result, nvars, cvars>>

\* lines 33-39
ExtractFeatures ==
    /\ rpc = "features"
    /\ LET features_match == FeaturesSearch(readme_content)
       IN  features_with_breaks' =
               IF features_match.found
               THEN add_line_breaks(Strip(features_match.group))
               ELSE FeaturesNotFound
    /\ rpc' = "replace"
    /\ UNCHANGED <<page_markdown, src_path, readme_file, readme_exists, read_exc,
                   readme_content, headline, hook_result, nvars, cvars>>

\* lines 42-45
ReplacePlaceholders ==
    /\ rpc = "replace"
    /\ ReturnMarkdown(Replace(Replace(page_markdown, HeadlinePlaceholder, headline),
                              FeaturesPlaceholder, features_with_breaks))
    /\ UNCHANGED <<page_markdown, src_path, readme_file, readme_exists, read_exc,
                   readme_content, headline, features_with_breaks, nvars, cvars>>

InitReadme ==
    /\ rpc = "start"
    /\ page_markdown \in PageInputs
    /\ readme_file \in ReadmeInputs
    /\ src_path = "" /\ readme_exists = FALSE /\ read_exc = "none"
    /\ readme_content = <<>> /\ headline = <<>> /\ features_with_breaks = <<>>
    /\ hook_result = <<>>
    /\ NormalizeIdle /\ ChatIdle

NextReadme ==
    \/ CheckPage
    \/ CheckExists
    \/ ReadReadme
    \/ ExtractHeadline
    \/ ExtractFeatures
    \/ ReplacePlaceholders

SpecReadme == InitReadme /\ [][NextReadme]_vars

(***************************************************************************)
(* Claims about readme_sync.py                                             *)
(***************************************************************************)
Occurs(text, lit) == \E p \in 1..Len(text) : MatchAt(text, p, lit)

\* the section as the specification words it: the lines strictly between
\* the first line equal to "## Features" and the next line beginning "## "
StatedSection(text) ==
    LET ls == Split(text, NL)
        heads == {k \in 1..Len(ls) : ls[k] = <<"#", "#", " ", "F", "e", "a", "t", "u", "r", "e", "s">>}
    IN  IF heads = {} THEN NoMatch
        ELSE LET k == MinOf(heads)
                 nexts == {m \in (k + 1)..Len(ls) : StartsWith(ls[m], <<"#", "#", " ">>)}
                 m == IF nexts = {} THEN Len(ls) + 1 ELSE MinOf(nexts)
             IN  [found |-> TRUE, group |-> Join(SubSeq(ls, k + 1, m - 1), <<NL>>)]

\* C5: the features block is taken from exactly the text strictly between a
\* line equal to "## Features" and the next line beginning with "## " (or
\* the end of the document); nothing of a following "## " section is
\* included, a line that only contains "## Features" does not start the
\* section, and without such a line the value is the fallback string.
C5_FeaturesSectionAsStated ==
    rpc = "replace" =>
        features_with_breaks =
            IF StatedSection(readme_content).found
            THEN add_line_breaks(Strip(StatedSection(readme_content).group))
            ELSE FeaturesNotFound

\* C6 as stated: for a README containing "## Features\n- a\n- b\n## Other\n"
\* the features value is exactly "- a  \n- b".
C6_ExampleAsStated ==
    (rpc = "replace" /\ Occurs(readme_content, FeaturesExample))
        => features_with_breaks = <<"-", " ", "a", " ", " ", NL, "-", " ", "b">>

FirstHeadingAt(text, p) ==
    /\ MatchAt(text, p, FeaturesHeading)
    /\ \A j \in 1..(p - 1) : ~MatchAt(text, j, FeaturesHeading)

\* C6 (amended): the features block is the section text trimmed and then
\* line-broken, so every non-blank line of it, the last one included, ends
\* with exactly two spaces after its text; for a README whose first
\* "## Features\n" begins "## Features\n- a\n- b\n## Other\n" the features
\* value is exactly "- a  \n- b  ".
C6_TrimmedThenLineBroken ==
    (rpc = "replace" /\ Occurs(readme_content, FeaturesHeading)) =>
        /\ (features_with_breaks # <<>> =>
               /\ ~IsSpace(features_with_breaks[1])
               /\ EndsWith(features_with_breaks, <<" ", " ">>))
        /\ \A l \in {Split(features_with_breaks, NL)[k] :
                        k \in 1..Len(Split(features_with_breaks, NL))} :
               Strip(l) # <<>> => l = RStrip(l) \o <<" ", " ">>
        /\ (\E p \in 1..Len(readme_content) :
               FirstHeadingAt(readme_content, p) /\ MatchAt(readme_content, p, FeaturesExample))
               => features_with_breaks =
                      <<"-", " ", "a", " ", " ", NL, "-", " ", "b", " ", " ">>

C6_Witness ==
    /\ rpc = "replace"
    /\ readme_content = HeadlineExample \o FeaturesExample
    /\ features_with_breaks = <<"-", " ", "a", " ", " ", NL, "-", " ", "b", " ", " ">>

\* the headline as the specification words it: the text between the first
\* "**" marker and the next "**" marker, if there are two such markers
StatedHeadline(text) ==
    LET marks == {p \in 1..Len(text) : MatchAt(text, p, <<"*", "*">>)}
    IN  IF marks = {} THEN NoMatch
        ELSE LET p == MinOf(marks)
                 nexts == {q \in marks : q >= p + 2}
             IN  IF nexts = {} THEN NoMatch
                 ELSE [found |-> TRUE, group |-> SubSeq(text, p + 2, MinOf(nexts) - 1)]

\* C7: the headline is the text between the first "**" marker and the next
\* "**" marker of the README, and it is the default string exactly when the
\* README holds no such span; "# X\n\n**Hello world**\n" gives "Hello world".
C7_HeadlineAsStated ==
    rpc \in {"features", "replace"} =>
        /\ headline = IF StatedHeadline(readme_content).found
                      THEN StatedHeadline(readme_content).group
                      ELSE DefaultHeadline
        /\ readme_content = HeadlineExample =>
               headline = <<"H", "e", "l", "l", "o", " ", "w", "o", "r", "l", "d">>

HookCannotUseReadme ==
    src_path # "index.md" \/ ~readme_exists \/ read_exc # "none"

\* C8: when the page is not index.md, README.md does not exist, or reading
\* it raises, the hook returns the page markdown it was given, unmodified,
\* and no error reaches the caller.
C8_PassThrough ==
    /\ rpc # "raised"
    /\ (rpc = "returned" /\ HookCannotUseReadme) => hook_result = page_markdown

C8_Witness ==
    /\ rpc = "returned"
    /\ src_path = "index.md" /\ readme_exists /\ read_exc = "OSError"
    /\ Occurs(page_markdown, HeadlinePlaceholder)
    /\ Occurs(hook_result, FeaturesPlaceholder)

(***************************************************************************)
(* test_llm.py and test_client.py : send_message and the chat loops        *)
(***************************************************************************)
\* the default MODEL_NAME of test_llm.py, line 10
DefaultModelName == "proxy-test"

\* str.lower() on the letters the inputs use
LowerChar(c) ==
    CASE c = "Q" -> "q" [] c = "U" -> "u" [] c = "I" -> "i" [] c = "T" -> "t"
      [] c = "E" -> "e" [] c = "X" -> "x" [] OTHER -> c
Lower(s) == [k \in 1..Len(s) |-> LowerChar(s[k])]

\* test_client.py line 106
QuitWords == { <<"q", "u", "i", "t">>, <<"e", "x", "i", "t">>, <<"q">> }

\* Response.raise_for_status(): HTTPError for 400 <= status_code < 600
IsErrorStatus(st) == 400 <= st /\ st < 600

\* -------- inputs --------
MaxTurns == 3

\* what the user can type at "You: "
TypedInputs ==
    { <<"h", "i">>, <<" ", "h", "i", " ">>, <<>>, <<" ", " ">>,
      <<"q", "u", "i", "t">>, <<" ", "E", "x", "i", "t">>, <<"Q">> }

Statuses == {200, 304, 404, 500}
\* the body of a response: JSON with choices[0].message.content, JSON
\* without that path, or not JSON at all
ResponseBodies ==
    { [json |-> TRUE, content |-> "hi"], [json |-> TRUE, content |-> "none"],
      [json |-> FALSE, content |-> "none"] }
Responses == [status : Statuses, body : ResponseBodies]
TransportErrors == {"ConnectionError", "Timeout"}
ModelLists == { <<>>, <<"m1">>, <<"m1", "m2">> }
Scripts == {"test_llm", "test_client"}

\* -------- test_client.py interactive_mode, lines 69-100 --------
\* lines 15-27 and 79-82: get_models() returns [] on any failure
GetModels ==
    /\ cpc = "setup"
    /\ \E ms \in ModelLists :
          /\ models' = ms
          /\ cpc' = IF ms = <<>> THEN "exited" ELSE "select"
    /\ UNCHANGED <<script, model_name, user_input, posts, response, exc, returned,
                   printed, turns, nvars, rvars>>

\* lines 88-96: a number in range selects the model, anything else asks again
SelectModel ==
    /\ cpc = "select"
    /\ \E selection \in 0..(Len(models) + 1) :
          IF 1 <= selection /\ selection <= Len(models)
          THEN model_name' = models[selection] /\ cpc' = "prompt"
          ELSE UNCHANGED <<model_name, cpc>>
    /\ UNCHANGED <<script, models, user_input, posts, response, exc, returned,
                   printed, turns, nvars, rvars>>

\* lines 88-96 catch ValueError only
SelectInterrupted ==
    /\ cpc = "select"
    /\ \E e \in {"KeyboardInterrupt", "EOFError"} : exc' = e
    /\ cpc' = "crashed"
    /\ UNCHANGED <<script, models, model_name, user_input, posts, response, returned,
                   printed, turns, nvars, rvars>>

\* -------- the chat loop: test_client.py 102-122, test_llm.py 55-71 --------
\* test_client.py lines 104-108
QuitCommand ==
    /\ cpc = "prompt"
    /\ script = "test_client"
    /\ \E typed \in TypedInputs :
          /\ Lower(Strip(typed)) \in QuitWords
          /\ user_input' = Strip(typed)
    /\ cpc' = "exited"
    /\ UNCHANGED <<script, models, model_name, posts, response, exc, returned,
                   printed, turns, nvars, rvars>>

\* test_client.py lines 110-111, test_llm.py lines 59-60
BlankInput ==
    /\ cpc = "prompt"
    /\ \E typed \in TypedInputs :
          /\ Strip(typed) = <<>>
          /\ user_input' = Strip(typed)
    /\ UNCHANGED <<script, cpc, models, model_name, posts, response, exc, returned,
                   printed, turns, nvars, rvars>>

\* test_client.py lines 113-114, test_llm.py lines 62-63: send_message is called
SendInput ==
    /\ cpc = "prompt"
    /\ turns < MaxTurns
    /\ \E typed \in TypedInputs :
          /\ Strip(typed) # <<>>
          /\ ~(script = "test_client" /\ Lower(Strip(typed)) \in QuitWords)
          /\ user_input' = Strip(typed)
    /\ cpc' = "post"
    /\ posts' = 0
    /\ response' = NoResponse
    /\ returned' = "none"
    /\ turns' = turns + 1
    /\ UNCHANGED <<script, models, model_name, exc, printed, nvars, rvars>>

\* input() raises; test_client.py lines 117-122, test_llm.py lines 66-71
InputInterrupted ==
    /\ cpc = "prompt"
    /\ \E e \in {"KeyboardInterrupt", "EOFError"} : exc' = e
    /\ cpc' = "exited"
    /\ UNCHANGED <<script, models, model_name, user_input, posts, response, returned,
                   printed, turns, nvars, rvars>>

\* test_client.py line 60, test_llm.py line 44: one requests.post; it raises
\* (no response) or returns the server's response
Post ==
    /\ cpc = "post"
    /\ posts' = posts + 1
    /\ \/ \E e \in TransportErrors \cup {"KeyboardInterrupt"} :
             exc' = e /\ cpc' = "raised" /\ UNCHANGED response
       \/ \E r \in Responses :
             response' = r /\ cpc' = "status" /\ UNCHANGED exc
    /\ UNCHANGED <<script, models, model_name, user_input, returned, printed, turns,
                   nvars, rvars>>

RaiseForStatusOn5xxOnly ==
    /\ cpc = "status"
    /\ IF 500 <= response.status /\ response.status < 600
       THEN exc' = "HTTPError" /\ cpc' = "raised"
       ELSE cpc' = "json" /\ UNCHANGED exc
    /\ UNCHANGED <<script, models, model_name, user_input, posts, response, returned,
                   printed, turns, nvars, rvars>>
\* test_client.py line 61, test_llm.py line 45; the HTTPError holds the response
RaiseForStatus ==
    /\ cpc = "status"
    /\ IF IsErrorStatus(response.status)
       THEN exc' = "HTTPError" /\ cpc' = "raised"
       ELSE cpc' = "json" /\ UNCHANGED exc
    /\ UNCHANGED <<script, models, model_name, user_input, posts, response, returned,
                   printed, turns, nvars, rvars>>

\* test_client.py line 62, test_llm.py lines 47-48
ExtractContent ==
    /\ cpc = "json"
    /\ IF ~response.body.json
       THEN exc' = "JSONDecodeError" /\ cpc' = "raised" /\ UNCHANGED returned
       ELSE IF response.body.content = "none"
       THEN exc' = "KeyError" /\ cpc' = "raised" /\ UNCHANGED returned
       ELSE returned' = response.body.content /\ cpc' = "print" /\ UNCHANGED exc
    /\ UNCHANGED <<script, models, model_name, user_input, posts, response,
                   printed, turns, nvars, rvars>>

\* test_client.py line 115, test_llm.py line 64
PrintResponse ==
    /\ cpc = "print"
    /\ printed' = Append(printed, returned)
    /\ cpc' = "prompt"
    /\ UNCHANGED <<script, models, model_name, user_input, posts, response, exc, returned,
                   turns, nvars, rvars>>

\* the exception leaves send_message and reaches the loop's try statement:
\* test_client.py lines 117-122, test_llm.py lines 66-71 catch
\* KeyboardInterrupt and EOFError and break; anything else leaves the loop
\* and main(), and the interpreter exits with a traceback
Unwind ==
    /\ cpc = "raised"
    /\ cpc' = IF exc \in {"KeyboardInterrupt", "EOFError"} THEN "exited" ELSE "crashed"
    /\ UNCHANGED <<script, models, model_name, user_input, posts, response, exc, returned,
                   printed, turns, nvars, rvars>>

InitChat ==
    /\ script \in Scripts
    /\ cpc = IF script = "test_client" THEN "setup" ELSE "prompt"
    /\ models = <<>>
    /\ model_name = IF script = "test_client" THEN "None" ELSE DefaultModelName
    /\ user_input = <<>> /\ posts = 0 /\ response = NoResponse /\ exc = "none"
    /\ returned = "none" /\ printed = <<>> /\ turns = 0
    /\ NormalizeIdle /\ ReadmeIdle

NextChat ==
    \/ GetModels
    \/ SelectModel
    \/ SelectInterrupted
    \/ QuitCommand
    \/ BlankInput
    \/ SendInput
    \/ InputInterrupted
    \/ Post
    \/ RaiseForStatus
    \/ ExtractContent
    \/ PrintResponse
    \/ Unwind

SpecChat == InitChat /\ [][NextChat]_vars

(***************************************************************************)
(* Claims about the chat scripts                                           *)
(***************************************************************************)
RequestFailures ==
    {"HTTPError", "JSONDecodeError", "KeyError", "ConnectionError", "Timeout"}

\* C9: in both front ends a failed request (HTTP error status, malformed
\* response, network error, timeout) ends only that operation: the loop
\* is still running afterwards, and it ends only on a user cancel, on
\* end-of-input or (test_client) on a quit command.
C9_LoopSurvivesFailedRequest ==
    /\ cpc = "crashed" => exc \notin RequestFailures
    /\ (cpc \in {"exited", "crashed"} /\ model_name # "None") =>
          \/ exc \in {"KeyboardInterrupt", "EOFError"}
          \/ (script = "test_client" /\ Lower(user_input) \in QuitWords)

CallEnded == cpc \in {"print", "raised"}
Success2xx(st) == 200 <= st /\ st < 300
HasContent(r) == r.body.json /\ r.body.content # "none"

====
